---------------------------- MODULE Spec2Model ----------------------------
(***************************************************************************)
(* Graph Associative Memory (smorad/graph-conv-memory), sparse variant.    *)
(*                                                                         *)
(* State machines over one set of variables:                         *)
(*   SpecEngine   SparseGCM.forward (sparse_gcm.py): a caller feeding      *)
(*                observation chunks to the memory and keeping the hidden  *)
(*                state it gets back (SpecPadded: zero-padded chunks);     *)
(*   SpecCodec    pack_hidden / unpack_hidden (util.py);                   *)
(*   SpecLearned  LearnedEdge.forward (sparse_edge_selectors/learned.py);  *)
(*   SpecAdapter  RaySparseGCM.get_initial_state (ray_sparse_gcm.py);      *)
(*   SpecIdxs     get_new_node_idxs, get_nonpadded_idxs, to_dense;         *)
(*   SpecWrap     SparseGCM.wrap_overflow.                                 *)
(*                                                                         *)
(* Tensors are functions over 0-based index ranges, as in the source.      *)
(* A feature vector is one opaque value; 0 is the all-zero vector.         *)
(***************************************************************************)
EXTENDS Integers, Sequences, FiniteSets, TLC

VARIABLES
    B,          \* batch size of the run (x.shape[0])
    cfg,        \* SparseGCM constructor arguments
    hidden,     \* the hidden state the caller holds (None before the 1st call)
    mx,         \* beliefs returned by the last call
    status,     \* outcome of the last call: "new", "ok" or the exception raised
    caller,     \* what the caller knows: its inputs so far and the state it passed in
    codec,      \* pack_hidden / unpack_hidden: arguments and results
    learned,    \* LearnedEdge.forward: arguments and result
    adapter,    \* RaySparseGCM: its configuration and the state it hands out
    idxs,       \* the index helpers of util.py: arguments and results
    wrap        \* SparseGCM.wrap_overflow: arguments and results

vars == <<B, cfg, hidden, mx, status, caller, codec, learned, adapter, idxs, wrap>>

---------------------------------------------------------------------------
(* Bounds of the model *)

MaxB == 2          \* batch sizes 1..MaxB
MaxTau == 2        \* timesteps per call 1..MaxTau
GraphSize == 3     \* graph_size given to SparseGCM (node capacity N)
MaxFeatOut == 3    \* widths 1..MaxFeatOut of the GNN's output rows
MaxCalls == 4      \* calls of forward that return, per run
MaxGivenEdges == 1 \* edge slots per element of a hidden state given to forward

---------------------------------------------------------------------------
(* Small helpers *)

Range(n) == 0 .. (n - 1)

Min2(a, b) == IF a <= b THEN a ELSE b

Max2(a, b) == IF a >= b THEN a ELSE b

RECURSIVE SumTo(_, _)
\* f[0] + ... + f[n-1]
SumTo(f, n) == IF n <= 0 THEN 0 ELSE SumTo(f, n - 1) + f[n - 1]

\* Python/torch indexing of a dimension of size n: -n <= i < n, negatives wrap
IndexOk(i, n) == (-n <= i) /\ (i < n)

WrapIndex(i, n) == IF i < 0 THEN i + n ELSE i

---------------------------------------------------------------------------
(* SparseGCM (sparse_gcm.py) *)

\* The sentinel of an unused edge slot and the weight of an unused slot
edge_fill == -1

weight_fill == 1

\* hidden == None
None == [nodes |-> <<>>, edges |-> <<>>, weights |-> <<>>, T |-> <<>>]

\* Opaque modules: the preprocessor and the positional encoder change every
\* row they are given; tagged so that a changed row never equals a raw one.
preprocessor(v) == v + 1000

positional_encoder(v, i) == v + 100 * (i + 1)

get_initial_hidden_state(Bx) ==
    [ nodes   |-> [b \in Range(Bx) |-> [i \in Range(GraphSize) |-> 0]],
      edges   |-> [b \in Range(Bx) |-> <<>>],
      weights |-> [b \in Range(Bx) |-> <<>>],
      T       |-> [b \in Range(Bx) |-> 0] ]

\* torch.arange(B).repeat_interleave(tau)
B_idxs_of(Bx, tau) == [j \in Range(Bx * tau) |-> j \div tau]

\* torch.cat([torch.arange(t, t + tau) for t in T])
tau_idxs_of(T, Bx, tau) == [j \in Range(Bx * tau) |-> T[j \div tau] + (j % tau)]

\* x.reshape(-1, x.shape[-1])
reshape_x(x, Bx, tau) == [j \in Range(Bx * tau) |-> x[j \div tau][j % tau]]

\* nodes[B_idxs, tau_idxs] = vals raises IndexError on an index out of range
IndexPutOk(nodes, Bi, Ti) ==
    \A j \in DOMAIN Bi :
        /\ IndexOk(Bi[j], Cardinality(DOMAIN nodes))
        /\ IndexOk(Ti[j], GraphSize)

\* nodes[B_idxs, tau_idxs] = vals (the last write to a place wins)
IndexPut(nodes, Bi, Ti, vals) ==
    [b \in DOMAIN nodes |->
        [i \in DOMAIN nodes[b] |->
            LET hits == {j \in DOMAIN Bi :
                            Bi[j] = b /\ WrapIndex(Ti[j], GraphSize) = i}
            IN  IF hits = {} THEN nodes[b][i]
                ELSE vals[CHOOSE j \in hits : \A k \in hits : k <= j]]]

\* dirty_nodes after the optional preprocessor and positional encoder
Dirty(nodes, c) ==
    [b \in DOMAIN nodes |->
        [i \in DOMAIN nodes[b] |->
            LET p == IF c.preprocessor THEN preprocessor(nodes[b][i])
                     ELSE nodes[b][i]
            IN  IF c.positional_encoder THEN positional_encoder(p, i) ELSE p]]

\* rows of data_x = dirty_nodes[b, :T[b] + tau]: a slice clamps at N, and a
\* negative end counts from the last row
DataRows(T, b, tau) ==
    IF T[b] + tau < 0 THEN Max2(0, GraphSize + T[b] + tau)
    ELSE Min2(T[b] + tau, GraphSize)

\* torch_geometric Batch.from_data_list: element b's rows start here
BatchStart(T, b, tau) == SumTo([k \in Range(b) |-> DataRows(T, k, tau)], b)

\* batch.x.shape[0]
BatchRows(T, Bx, tau) == BatchStart(T, Bx, tau)

ElementEdges_unfiltered(edges, b) == {edges[b][k] : k \in DOMAIN edges[b]}

\* data_edge = edges[b, :, mask[0] & mask[1]] with mask = edges[b] > -1: the
\* slots of element b that hold no sentinel
ElementEdges(edges, b) ==
    {edges[b][k] : k \in {j \in DOMAIN edges[b] :
                             edges[b][j][1] > -1 /\ edges[b][j][2] > -1}}

\* batch.edge_index: the data_edge of each element, moved by
\* Batch.from_data_list to the element's first row
BatchEdges(edges, T, Bx, tau) ==
    UNION { {<<e[1] + BatchStart(T, b, tau), e[2] + BatchStart(T, b, tau)>> :
                e \in ElementEdges(edges, b)} :
            b \in Range(Bx) }

\* The GNN gathers the rows of batch.x at the edges' endpoints: an endpoint
\* that is no row of batch.x raises an index error in the gather
GnnOk(batch_edges, rows) ==
    \A e \in batch_edges : e[1] < rows /\ e[2] < rows

\* The GNN is opaque: entry (r, c) of its output is named by its place.
Cell(r, c) == <<r, c>>

\* node_feats[B_idxs, tau_idxs]: two index tensors over a 2-d tensor index
\* its first and its second dimension
ExtractOk(rows, cols, Bi, Ti) ==
    \A j \in DOMAIN Bi : IndexOk(Bi[j], rows) /\ IndexOk(Ti[j], cols)

Extract(rows, cols, Bi, Ti) ==
    [ shape |-> <<Cardinality(DOMAIN Bi)>>,
      data  |-> [j \in DOMAIN Bi |->
                    Cell(WrapIndex(Bi[j], rows), WrapIndex(Ti[j], cols))] ]

NoBelief == [shape |-> <<0>>, data |-> <<>>]

ReturnedNodes_dirty(nodes, dirty_nodes) == dirty_nodes

\* The hidden state forward returns: the raw nodes, not dirty_nodes
ReturnedNodes(nodes, dirty_nodes) == nodes

AdvanceT_atleast1(T, tau) == [b \in DOMAIN T |-> T[b] + Max2(tau, 1)]

\* T = T + tau
AdvanceT(T, tau) == [b \in DOMAIN T |-> T[b] + tau]

\* The caller's observations are opaque to the memory, which never looks
\* into a feature vector: the n-th real observation of element b is the
\* vector named 10 * b + n + 1, so that every misplaced row shows.
Obs(b, n) == 10 * b + n + 1

Given(log) == Cardinality({k \in DOMAIN log : log[k] # 0})

\* The zero-padded chunk [B, tau] with valid lengths vl: real observations
\* in [0, vl[b]), zero vectors after them
PaddedBatch(Bx, tau, vl) ==
    [b \in Range(Bx) |->
        [i \in Range(tau) |->
            IF i < vl[b] THEN Obs(b, Given(caller.log[b]) + i) ELSE 0]]

AssertFinite_off(finite) == TRUE

\* assert torch.all(torch.isfinite(mx)): passes when every entry is finite
AssertFinite(finite) == finite

PassedNodesAfter_inplace(passed_nodes, written) == written

\* nodes = nodes.clone() before the write: the tensor the caller passed in
\* keeps its values, the write goes to the copy
PassedNodesAfter(passed_nodes, written) == passed_nodes

\* T = T + tau builds a new tensor: the T the caller passed in keeps its values
PassedTAfter(passed_T, advanced) == passed_T

\* The chain the aux branch calls: self.edge_selectors
AuxCallee == "edge_selectors"

\* The edge selector calls of one forward, in order: the chain called, the
\* nodes it is given and the number of arguments
SelectorCalls(c, nodes, dirty) ==
    (IF c.edge_selectors
     THEN <<[chain |-> "edge_selectors", nodes |-> nodes, nargs |-> 5]>>
     ELSE <<>>) \o
    (IF c.aux_edge_selectors
     THEN <<[chain |-> AuxCallee, nodes |-> dirty, nargs |-> 6]>>
     ELSE <<>>)

\* A call of an attribute that is None raises TypeError
Callable(c, chain) ==
    IF chain = "edge_selectors" THEN c.edge_selectors ELSE c.aux_edge_selectors

\* What a slot returned by an edge selector chain may hold for an element
\* of n nodes: the sentinel, a half-filled slot, or the edge that joins the
\* newest node to the node before it
SelectorSlots(n) ==
    {<<edge_fill, edge_fill>>, <<0, edge_fill>>} \cup
    (IF n >= 2 THEN {<<n - 1, n - 2>>} ELSE {})

\* What an edge selector chain may return for a batch whose element b has
\* n[b] nodes: E slots per element
SelectorEdges(Bx, n) ==
    UNION {
      { es \in [Range(Bx) ->
                   [1 .. E -> UNION {SelectorSlots(n[b]) : b \in Range(Bx)}]] :
          \A b \in Range(Bx) : \A k \in 1 .. E :
              es[b][k] \in SelectorSlots(n[b]) } :
      E \in 0 .. MaxGivenEdges }

\* The outcomes of the selector calls of one forward: the edges of the last
\* call, and whether the primary chain accepts the six arguments of the
\* aux branch
Selections(c, h0, Bx, tau) ==
    IF c.edge_selectors
    THEN { [edges |-> es, accepts |-> a] :
             es \in SelectorEdges(Bx, [b \in Range(Bx) |-> h0.T[b] + tau]),
             a \in IF c.aux_edge_selectors THEN BOOLEAN ELSE {TRUE} }
    ELSE { [edges |-> h0.edges, accepts |-> TRUE] }

NoGraph == [rows |-> <<>>, data |-> <<>>, edges |-> {}]

\* SparseGCM.forward(x, hidden); finite is the outcome of torch.isfinite(mx),
\* sel the outcome of the edge selectors.  caller.held is what the tensors
\* of the hidden state passed in hold when the call ends, caller.calls the
\* selector calls made, caller.graph the batch handed to the GNN.
forward(x, tau, vl, finite, sel) ==
    LET h0     == IF hidden = None THEN get_initial_hidden_state(B) ELSE hidden
        T      == h0.T
        Bi     == B_idxs_of(B, tau)
        Ti     == tau_idxs_of(T, B, tau)
        nodes  == IndexPut(h0.nodes, Bi, Ti, reshape_x(x, B, tau))
        dirty  == Dirty(nodes, cfg)
        rows   == BatchRows(T, B, tau)
        calls  == SelectorCalls(cfg, nodes, dirty)
        edges  == sel.edges
        weights == IF cfg.edge_selectors
                   THEN [b \in Range(B) |->
                            [k \in DOMAIN edges[b] |-> weight_fill]]
                   ELSE h0.weights
        graph  == [ rows  |-> [b \in Range(B) |-> DataRows(T, b, tau)],
                    data  |-> [b \in Range(B) |-> ElementEdges(edges, b)],
                    edges |-> BatchEdges(edges, T, B, tau) ]
        passed == [ hidden |-> hidden, x |-> x, tau |-> tau,
                    validLength |-> vl, finite |-> finite,
                    held |-> [nodes |-> h0.nodes, T |-> T],
                    calls |-> <<>>, graph |-> NoGraph,
                    log |-> caller.log, taus |-> caller.taus ]
        after  == [ nodes |-> PassedNodesAfter(h0.nodes, nodes),
                    T     |-> T ]
    IN  IF ~IndexPutOk(h0.nodes, Bi, Ti)
        THEN /\ status' = "IndexError"
             /\ caller' = passed
             /\ mx' = NoBelief
             /\ UNCHANGED hidden
        ELSE IF \E n \in DOMAIN calls :
                    \/ ~Callable(cfg, calls[n].chain)
                    \/ calls[n].nargs = 6 /\ ~sel.accepts
        THEN /\ status' = "TypeError"
             /\ caller' = [passed EXCEPT
                              !.held = after,
                              !.calls = SubSeq(calls, 1, Len(calls) - 1)]
             /\ mx' = NoBelief
             /\ UNCHANGED hidden
        ELSE IF \/ ~GnnOk(BatchEdges(edges, T, B, tau), rows)
                \/ ~ExtractOk(rows, cfg.feat_out, Bi, Ti)
        THEN /\ status' = "IndexError"
             /\ caller' = [passed EXCEPT !.held = after, !.calls = calls,
                                         !.graph = graph]
             /\ mx' = NoBelief
             /\ UNCHANGED hidden
        ELSE IF ~AssertFinite(finite)
        THEN /\ status' = "AssertionError"
             /\ caller' = [passed EXCEPT !.held = after, !.calls = calls,
                                         !.graph = graph]
             /\ mx' = NoBelief
             /\ UNCHANGED hidden
        ELSE /\ status' = "ok"
             /\ mx' = Extract(rows, cfg.feat_out, Bi, Ti)
             /\ hidden' = [ nodes   |-> ReturnedNodes(nodes, dirty),
                            edges   |-> edges,
                            weights |-> weights,
                            T       |-> AdvanceT(T, tau) ]
             /\ caller' = [passed EXCEPT
                              !.held = [nodes |-> PassedNodesAfter(h0.nodes, nodes),
                                        T |-> PassedTAfter(T, AdvanceT(T, tau))],
                              !.calls = calls,
                              !.graph = graph,
                              !.log = [b \in Range(B) |->
                                          caller.log[b] \o
                                          [k \in 1 .. tau |-> x[b][k - 1]]],
                              !.taus = Append(caller.taus, tau)]

\* the hidden state forward works on
WorkingState == IF hidden = None THEN get_initial_hidden_state(B) ELSE hidden

\* The outcomes of torch.all(torch.isfinite(mx)) for an mx of n entries:
\* torch.all of an empty tensor is True
IsFinite(n) == IF n = 0 THEN {TRUE} ELSE BOOLEAN

\* One call by a caller that keeps the hidden state the previous call
\* returned and gives tau real observations per element.  An exception
\* propagates to the caller and ends the run.
Step ==
    /\ status \in {"new", "ok"}
    /\ Len(caller.taus) < MaxCalls
    /\ \E tau \in 0 .. MaxTau :
       \E finite \in IsFinite(B * tau) :
       \E sel \in Selections(cfg, WorkingState, B, tau) :
           LET vl == [b \in Range(B) |-> tau]
           IN  forward(PaddedBatch(B, tau, vl), tau, vl, finite, sel)
    /\ UNCHANGED <<B, cfg, codec, learned, adapter, idxs, wrap>>

\* One call with a zero-padded chunk, as the policy adapter builds it
\* (ray_sparse_gcm.py: dense = add_time_dimension(flat, seq_lens.max())):
\* element b has seq_lens[b] real rows, the longest element has tau
StepPadded ==
    /\ status \in {"new", "ok"}
    /\ \E tau \in 1 .. MaxTau :
       \E vl \in [Range(B) -> 0 .. tau] :
       \E finite \in BOOLEAN :
       \E sel \in Selections(cfg, WorkingState, B, tau) :
           /\ \E b \in Range(B) : vl[b] = tau
           /\ forward(PaddedBatch(B, tau, vl), tau, vl, finite, sel)
    /\ UNCHANGED <<B, cfg, codec, learned, adapter, idxs, wrap>>

Idle == [pc |-> "idle"]

InitEngine ==
    /\ B \in 1 .. MaxB
    /\ cfg \in [ preprocessor : BOOLEAN, positional_encoder : BOOLEAN,
                 edge_selectors : {FALSE}, aux_edge_selectors : {FALSE},
                 feat_out : 1 .. MaxFeatOut ]
    /\ hidden = None
    /\ mx = NoBelief
    /\ status = "new"
    /\ caller = [ hidden |-> None, x |-> [b \in Range(B) |-> <<>>], tau |-> 0,
                  validLength |-> [b \in Range(B) |-> 0], finite |-> TRUE,
                  held |-> [nodes |-> <<>>, T |-> <<>>],
                  calls |-> <<>>, graph |-> NoGraph,
                  log |-> [b \in Range(B) |-> <<>>], taus |-> <<>> ]
    /\ codec = Idle
    /\ learned = Idle
    /\ adapter = Idle
    /\ idxs = Idle
    /\ wrap = Idle

NextEngine == Step

SpecEngine == InitEngine /\ [][NextEngine]_vars

\* Hidden states handed to forward by a caller that did not get them from
\* forward: T[b] in -1..graph_size and, per element, MaxGivenEdges slots
\* that hold the sentinel or an edge to node 0
GivenSlots == {<<edge_fill, edge_fill>>} \cup {<<s, 0>> : s \in 1 .. GraphSize}

GivenStates(Bx) ==
    UNION {
      { [ nodes   |-> get_initial_hidden_state(Bx).nodes,
          edges   |-> es,
          weights |-> [b \in Range(Bx) |-> [k \in 1 .. E |-> weight_fill]],
          T       |-> T ] :
          es \in [Range(Bx) -> [1 .. E -> GivenSlots]],
          T \in [Range(Bx) -> -1 .. GraphSize] } :
      E \in 0 .. MaxGivenEdges }

InitGiven ==
    /\ B \in 1 .. MaxB
    /\ cfg \in [ preprocessor : {FALSE}, positional_encoder : {FALSE},
                 edge_selectors : {FALSE}, aux_edge_selectors : {FALSE},
                 feat_out : 1 .. MaxFeatOut ]
    /\ hidden \in GivenStates(B)
    /\ mx = NoBelief
    /\ status = "new"
    /\ caller = [ hidden |-> None, x |-> [b \in Range(B) |-> <<>>], tau |-> 0,
                  validLength |-> [b \in Range(B) |-> 0], finite |-> TRUE,
                  held |-> [nodes |-> <<>>, T |-> <<>>],
                  calls |-> <<>>, graph |-> NoGraph,
                  log |-> [b \in Range(B) |-> <<>>], taus |-> <<>> ]
    /\ codec = Idle
    /\ learned = Idle
    /\ adapter = Idle
    /\ idxs = Idle
    /\ wrap = Idle

SpecGiven == InitGiven /\ [][NextEngine]_vars

\* A memory built with edge selector chains; the chains are opaque modules
InitSelectors ==
    /\ B \in 1 .. MaxB
    /\ cfg \in [ preprocessor : BOOLEAN, positional_encoder : {TRUE},
                 edge_selectors : BOOLEAN, aux_edge_selectors : BOOLEAN,
                 feat_out : {MaxFeatOut} ]
    /\ hidden = None
    /\ mx = NoBelief
    /\ status = "new"
    /\ caller = [ hidden |-> None, x |-> [b \in Range(B) |-> <<>>], tau |-> 0,
                  validLength |-> [b \in Range(B) |-> 0], finite |-> TRUE,
                  held |-> [nodes |-> <<>>, T |-> <<>>],
                  calls |-> <<>>, graph |-> NoGraph,
                  log |-> [b \in Range(B) |-> <<>>], taus |-> <<>> ]
    /\ codec = Idle
    /\ learned = Idle
    /\ adapter = Idle
    /\ idxs = Idle
    /\ wrap = Idle

SpecSelectors == InitSelectors /\ [][NextEngine]_vars

NextPadded == StepPadded

SpecPadded == InitEngine /\ [][NextPadded]_vars

---------------------------------------------------------------------------
(* Hidden-state codec: pack_hidden / unpack_hidden (util.py) *)

MaxNodes == 3      \* T[b] in 0..MaxNodes for the codec's inputs
MaxFlatEdges == 3  \* edges in a flat edge list given to pack_hidden
MaxMaxEdges == 2   \* max_edges in 1..MaxMaxEdges
MaxWeight == 2     \* edge weights 1..MaxWeight

\* T.cumsum(dim=0)
batch_ends_of(T, Bx) == [b \in Range(Bx) |-> SumTo(T, b + 1)]

\* batch_ends.roll(1) with entry 0 set to 0
batch_starts_of(T, Bx) == [b \in Range(Bx) |-> SumTo(T, b)]

\* mask = source_mask * sink_mask: the places of the flat edge list whose
\* two endpoints lie in element b's node range
OwnedPlaces(edges, T, Bx, b) ==
    {k \in DOMAIN edges :
        /\ batch_starts_of(T, Bx)[b] <= edges[k][1]
        /\ edges[k][1] < batch_ends_of(T, Bx)[b]
        /\ batch_starts_of(T, Bx)[b] <= edges[k][2]
        /\ edges[k][2] < batch_ends_of(T, Bx)[b]}

RECURSIVE Pick(_, _)
\* seq[:, mask]: the entries of seq at the places of mask, in stored order
Pick(seq, mask) ==
    IF seq = <<>> THEN <<>>
    ELSE LET n == Len(seq)
             front == Pick(SubSeq(seq, 1, n - 1), mask)
         IN  IF n \in mask THEN Append(front, seq[n]) ELSE front

\* The slice of element b's edges that _pack_hidden copies: [:max_indices]
KeptSlice(seq, max_edges) == SubSeq(seq, 1, Min2(Len(seq), max_edges))

\* dense_edges[b] and dense_weights[b, 0] for one element
PackElement(edges, weights, T, Bx, b, max_edges) ==
    LET mask == OwnedPlaces(edges, T, Bx, b)
        batch_edges == [k \in 1 .. Cardinality(mask) |->
                           <<Pick(edges, mask)[k][1] - batch_starts_of(T, Bx)[b],
                             Pick(edges, mask)[k][2] - batch_starts_of(T, Bx)[b]>>]
        batch_weights == Pick(weights, mask)
        keptE == KeptSlice(batch_edges, max_edges)
        keptW == KeptSlice(batch_weights, max_edges)
    IN  [ edges   |-> [k \in 1 .. max_edges |->
                          IF k <= Len(keptE) THEN keptE[k]
                          ELSE <<edge_fill, edge_fill>>],
          weights |-> [k \in 1 .. max_edges |->
                          IF k <= Len(keptW) THEN keptW[k] ELSE weight_fill] ]

\* The warnings _pack_hidden prints: num_edges = mask.shape[0] is the length
\* of the whole flat edge list
PackWarnings(edges, T, Bx, max_edges) ==
    {[b |-> b, num_edges |-> Len(edges), truncate |-> Len(edges) - max_edges] :
        b \in {c \in Range(Bx) :
                 /\ OwnedPlaces(edges, T, Bx, c) # {}
                 /\ Len(edges) > max_edges}}

\* pack_hidden(hidden, B, max_edges)
pack_hidden(h, Bx, max_edges) ==
    [ nodes   |-> h.nodes,
      edges   |-> [b \in Range(Bx) |->
                      PackElement(h.edges, h.weights, h.T, Bx, b, max_edges).edges],
      weights |-> [b \in Range(Bx) |->
                      PackElement(h.edges, h.weights, h.T, Bx, b, max_edges).weights],
      T       |-> h.T ]

\* (mask[0] & mask[1])[b]: the slots of element b that hold no sentinel
ValidSlots(edges, b) ==
    {k \in DOMAIN edges[b] : edges[b][k][1] >= 0 /\ edges[b][k][2] >= 0}

\* The (b, slot) pairs of the valid slots, element by element, slot ascending:
\* the order in which masked_select flattens
RECURSIVE SlotsUpTo(_, _)
SlotsUpTo(edges, n) ==
    IF n <= 0 THEN <<>>
    ELSE SlotsUpTo(edges, n - 1) \o
         Pick([k \in DOMAIN edges[n - 1] |-> <<n - 1, k>>],
              ValidSlots(edges, n - 1))

\* The endpoint _unpack_hidden emits for an endpoint e of element b: it
\* selects from edges, not from offset_edges
FlatEndpoint(e, offset) == e

\* weights.masked_select(stacked_mask[0]): weights is [B, 1, E] and the mask
\* [B, E], so the two broadcast to [B, B, E]; entry (i, j, e) is
\* weights[i, 0, e] and is selected when mask[j, e]
BroadcastWeights(weights, slots, Bx) ==
    [n \in 1 .. (Bx * Len(slots)) |->
        weights[(n - 1) \div Len(slots)][slots[((n - 1) % Len(slots)) + 1][2]]]

\* _unpack_hidden(nodes, edges, weights, T, B)
unpack_flat(h, Bx) ==
    LET slots == SlotsUpTo(h.edges, Bx)
    IN  [ edges   |-> [n \in 1 .. Len(slots) |->
                          LET b == slots[n][1]
                              e == h.edges[b][slots[n][2]]
                          IN  <<FlatEndpoint(e[1], batch_starts_of(h.T, Bx)[b]),
                                FlatEndpoint(e[2], batch_starts_of(h.T, Bx)[b])>>],
          weights |-> IF Len(slots) = 0 THEN <<>>
                      ELSE BroadcastWeights(h.weights, slots, Bx),
          B_idx   |-> [n \in 1 .. Len(slots) |-> slots[n][1]] ]

RECURSIVE SortPairs(_)
\* the pairs of a set in ascending (row, column) order
SortPairs(S) ==
    IF S = {} THEN <<>>
    ELSE LET m == CHOOSE p \in S : \A q \in S :
                      (p[1] < q[1]) \/ (p[1] = q[1] /\ p[2] <= q[2])
         IN  <<m>> \o SortPairs(S \ {m})

SetMin(S) == CHOOSE m \in S : \A n \in S : m <= n

\* torch_geometric.utils.coalesce(edge_index, [attr], reduce='min'): the
\* distinct pairs in (row, column) order, each with the minimum of the
\* attribute over its occurrences.  The attribute is permuted with the
\* edges' sort order (e[perm]), so only its first nnz entries are read.
coalesce(edges, attr) ==
    LET uniq == SortPairs({edges[k] : k \in DOMAIN edges})
    IN  [ edges |-> uniq,
          attr  |-> [n \in DOMAIN uniq |->
                        SetMin({attr[k] : k \in {j \in DOMAIN edges :
                                                    edges[j] = uniq[n]}})] ]

\* unpack_hidden(hidden, B)
unpack_hidden(h, Bx) ==
    LET flat == unpack_flat(h, Bx)
    IN  IF Len(flat.edges) > 0
        THEN [ nodes   |-> h.nodes,
               edges   |-> coalesce(flat.edges, flat.weights).edges,
               weights |-> coalesce(flat.edges, flat.weights).attr,
               T       |-> h.T ]
        ELSE [ nodes   |-> h.nodes,
               edges   |-> flat.edges,
               weights |-> flat.weights,
               T       |-> h.T ]

\* The (sink, source) pairs inside element b's node range [start, start + t):
\* edges flow from the past to the future (source < sink)
OwnPairs(start, t) ==
    {p \in {<<start + i, start + j>> : i \in Range(t), j \in Range(t)} :
        p[2] < p[1]}

\* Flat hidden states: every edge joins two nodes of one element
FlatStates(Bx) ==
    UNION {
      UNION {
        { [ nodes |-> "nodes", edges |-> es, weights |-> ws, T |-> T ] :
            es \in [1 .. n -> UNION {OwnPairs(batch_starts_of(T, Bx)[b], T[b]) :
                                        b \in Range(Bx)}],
            ws \in [1 .. n -> 1 .. MaxWeight] } :
        n \in 0 .. MaxFlatEdges } :
      T \in [Range(Bx) -> 0 .. MaxNodes] }

NoState == [nodes |-> "nodes", edges |-> <<>>, weights |-> <<>>, T |-> <<>>]

\* _unpack_hidden has not run
NoFlat == [edges |-> <<>>, weights |-> <<>>, B_idx |-> <<>>]

\* The caller packs the flat state x it holds
Pack ==
    /\ codec.pc = "flat"
    /\ codec' = [codec EXCEPT
                    !.pc = "dense",
                    !.dense = pack_hidden(codec.x, B, codec.max_edges),
                    !.warnings = PackWarnings(codec.x.edges, codec.x.T,
                                              B, codec.max_edges)]
    /\ UNCHANGED <<B, cfg, hidden, mx, status, caller, learned, adapter, idxs, wrap>>

\* The caller unpacks the dense state it was handed back; codec.flat is what
\* _unpack_hidden returns to unpack_hidden
Unpack ==
    /\ codec.pc = "dense"
    /\ codec' = [codec EXCEPT
                    !.pc = "unpacked",
                    !.flat = unpack_flat(codec.dense, B),
                    !.out = unpack_hidden(codec.dense, B)]
    /\ UNCHANGED <<B, cfg, hidden, mx, status, caller, learned, adapter, idxs, wrap>>

InitCodec ==
    /\ B \in 1 .. MaxB
    /\ cfg = [preprocessor |-> FALSE, positional_encoder |-> FALSE, feat_out |-> 1]
    /\ hidden = None
    /\ mx = NoBelief
    /\ status = "new"
    /\ caller = Idle
    /\ learned = Idle
    /\ adapter = Idle
    /\ idxs = Idle
    /\ wrap = Idle
    /\ codec \in { [ pc |-> "flat", max_edges |-> me, x |-> h,
                     dense |-> NoState, flat |-> NoFlat, out |-> NoState,
                     warnings |-> {} ] :
                   h \in FlatStates(B), me \in 1 .. MaxMaxEdges }

NextCodec == Pack \/ Unpack

SpecCodec == InitCodec /\ [][NextCodec]_vars

---------------------------------------------------------------------------
(* LearnedEdge.forward (sparse_edge_selectors/learned.py) *)

MaxWindow == 1     \* window in {None} \cup 1..MaxWindow
MaxSamples == 1    \* num_edge_samples in 1..MaxSamples

\* window = None
NoWindow == -1

\* window_min_idx: max(0, T[b] - self.window), or 0 without a window
window_min_idx(T, window, b) ==
    IF window = NoWindow THEN 0 ELSE Max2(0, T[b] - window)

\* torch.tril_indices(n, n, offset=-1): the (row, column) pairs strictly
\* below the diagonal
tril_indices(n) == {p \in Range(n) \X Range(n) : p[2] < p[1]}

\* edge_idx: the candidate (batch, sink, source) triples, after window_mask
edge_idx_of(T, taus, window, Bx) ==
    UNION { {<<b, p[1], p[2]>> :
                p \in {q \in tril_indices(T[b] + taus[b]) :
                          q[2] >= window_min_idx(T, window, b)}} :
            b \in Range(Bx) }

SetMax(S) == CHOOSE m \in S : \A n \in S : n <= m

\* gs_input.shape = (batch_idx.max() + 1, sink_idx.max() + 1, source_idx.max() + 1)
gs_shape(edge_idx) ==
    << SetMax({e[1] : e \in edge_idx}) + 1,
       SetMax({e[2] : e \in edge_idx}) + 1,
       SetMax({e[3] : e \in edge_idx}) + 1 >>

\* A row (b, sink, :) that holds no logit is all finfo.min, and stays so
\* when the Gumbel noise is added (the noise is below the float's
\* resolution there): y_soft.max(dim)[1] is the index of the first
\* maximal value.
TieIndex(width) == 0

\* The sources one row (b, sink, :) can end up with after num_edge_samples
\* hard draws are summed: each draw picks one entry of the row
RowDraws(edge_idx, b, sink, width, samples) ==
    LET cands == {e[3] : e \in {c \in edge_idx : c[1] = b /\ c[2] = sink}}
    IN  IF cands = {} THEN {{TieIndex(width)}}
        ELSE {S \in SUBSET cands : S # {} /\ Cardinality(S) <= samples}

RECURSIVE AllDraws(_, _, _, _)
\* The sets of nonzero entries of edges = ste(soft.sum(dim=0)), over all rows
AllDraws(edge_idx, rows, width, samples) ==
    IF rows = {} THEN {{}}
    ELSE LET r == CHOOSE q \in rows : TRUE
         IN  { rest \cup {<<r[1], r[2], src>> : src \in mine} :
                 rest \in AllDraws(edge_idx, rows \ {r}, width, samples),
                 mine \in RowDraws(edge_idx, r[1], r[2], width, samples) }

RemoveSelfEdges_kept(adj_idx) == adj_idx

\* mask = adj_idx[1] != adj_idx[2]: self edges are removed
RemoveSelfEdges(adj_idx) == {e \in adj_idx : e[2] # e[3]}

\* LearnedEdge.forward(nodes, T, taus, B)
Forward ==
    /\ learned.pc = "args"
    /\ LET edge_idx == edge_idx_of(learned.T, learned.taus, learned.window, B)
       IN  IF edge_idx = {}
           THEN \* batch_idx.max() of an empty tensor
                learned' = [learned EXCEPT !.pc = "done",
                                           !.status = "RuntimeError"]
           ELSE \E nonzero \in AllDraws(edge_idx,
                                 Range(gs_shape(edge_idx)[1]) \X
                                 Range(gs_shape(edge_idx)[2]),
                                 gs_shape(edge_idx)[3],
                                 learned.num_edge_samples) :
                    learned' = [learned EXCEPT
                                   !.pc = "done",
                                   !.status = "ok",
                                   !.adj = RemoveSelfEdges(nonzero)]
    /\ UNCHANGED <<B, cfg, hidden, mx, status, caller, codec, adapter, idxs, wrap>>

\* Arguments: nodes is [B, GraphSize, feat], and T[b] + taus[b] nodes of
\* element b are in use
InitLearned ==
    /\ B \in 1 .. MaxB
    /\ cfg = [preprocessor |-> FALSE, positional_encoder |-> FALSE, feat_out |-> 1]
    /\ hidden = None
    /\ mx = NoBelief
    /\ status = "new"
    /\ caller = Idle
    /\ codec = Idle
    /\ adapter = Idle
    /\ idxs = Idle
    /\ wrap = Idle
    /\ learned \in { [ pc |-> "args", T |-> T, taus |-> taus, window |-> w,
                       num_edge_samples |-> k, status |-> "new", adj |-> {} ] :
                     T \in [Range(B) -> 0 .. GraphSize],
                     taus \in [Range(B) -> 0 .. MaxTau],
                     w \in {NoWindow} \cup 1 .. MaxWindow,
                     k \in 1 .. MaxSamples }
    /\ \A b \in Range(B) : learned.T[b] + learned.taus[b] <= GraphSize

NextLearned == Forward

SpecLearned == InitLearned /\ [][NextLearned]_vars

---------------------------------------------------------------------------
(* Properties of SparseGCM.forward, checked under SpecEngine *)

\* T as it was when the last call was made
PrevT == IF caller.hidden = None THEN [b \in Range(B) |-> 0] ELSE caller.hidden.T

\* nodes as they were when the last call was made
PrevNodes ==
    IF caller.hidden = None THEN get_initial_hidden_state(B).nodes
    ELSE caller.hidden.nodes

\* every call so far inserted the same number of timesteps
SameTau == \A k \in DOMAIN caller.taus : caller.taus[k] = caller.taus[1]

\* C1: starting from an absent hidden state, after k calls that each insert
\* tau timesteps, T[b] = k * tau for every element b, and node rows
\* [0, T[b]) of b are the rows of x given for b, raw, in insertion order,
\* whatever preprocessor or positional encoder is configured.
C1_NodesAreTheObservations ==
    hidden # None =>
        \A b \in Range(B) :
            /\ hidden.T[b] = Len(caller.log[b])
            /\ SameTau => hidden.T[b] = Len(caller.taus) * caller.taus[1]
            /\ \A i \in Range(hidden.T[b]) :
                   hidden.nodes[b][i] = caller.log[b][i + 1]

C1_Witness ==
    /\ B = 2
    /\ cfg.preprocessor /\ cfg.positional_encoder
    /\ status = "ok"
    /\ caller.taus = <<1, 1, 1>>
    /\ \A b \in Range(B) :
           /\ hidden.T[b] = 3
           /\ \A i \in Range(3) : hidden.nodes[b][i] = Obs(b, i)

\* The beliefs C2 describes: a [B * tau, feat_out] tensor whose row for
\* (b, i) is the GNN's output row batchOffset[b] + T[b] + i
RowBeliefs(T, tau) ==
    [ shape |-> <<B * tau, cfg.feat_out>>,
      data  |-> [j \in Range(B * tau * cfg.feat_out) |->
                    LET r == j \div cfg.feat_out
                        b == r \div tau
                    IN  Cell(BatchStart(T, b, tau) + T[b] + (r % tau),
                             j % cfg.feat_out)] ]

\* C2: the beliefs a call returns are, for b ascending and i in [0, tau)
\* ascending, the GNN's output rows of the nodes T[b] + i of element b.
C2_BeliefsAreNewNodeRows ==
    status = "ok" => mx = RowBeliefs(PrevT, caller.tau)

\* C3: with valid lengths validLength[b] <= tau, a call writes only node
\* rows [T[b], T[b] + validLength[b]) of b and advances T[b] by
\* validLength[b]; padded timesteps are neither written nor counted.
C3_PaddingIsIgnored ==
    status = "ok" =>
        \A b \in Range(B) :
            /\ hidden.T[b] = PrevT[b] + caller.validLength[b]
            /\ \A i \in Range(GraphSize) :
                   IF PrevT[b] <= i /\ i < PrevT[b] + caller.validLength[b]
                   THEN hidden.nodes[b][i] = caller.x[b][i - PrevT[b]]
                   ELSE hidden.nodes[b][i] = PrevNodes[b][i]

\* C6: a call that inserts one timestep into an element that is full
\* (T[b] = graph_size) succeeds: row 0 is gone, every other row has moved
\* down by one, the new observation is the last row, and T[b] stays
\* graph_size.  (The GNN's output is taken to be finite.)
C6_FullGraphEvictsOldest ==
    \A b \in Range(B) :
        (/\ status \in {"ok", "IndexError"}
         /\ caller.tau = 1
         /\ PrevT[b] = GraphSize) =>
            /\ status = "ok"
            /\ hidden.T[b] = GraphSize
            /\ \A i \in Range(GraphSize - 1) :
                   hidden.nodes[b][i] = PrevNodes[b][i + 1]
            /\ hidden.nodes[b][GraphSize - 1] = caller.x[b][0]

---------------------------------------------------------------------------
(* Properties of pack_hidden / unpack_hidden, checked under SpecCodec *)

\* the (sink, source, weight) triples of a flat state
Triples(h) == {<<h.edges[k][1], h.edges[k][2], h.weights[k]>> : k \in DOMAIN h.edges}

\* no (sink, source) pair occurs twice in the flat edge list
Deduplicated(edges) ==
    \A j, k \in DOMAIN edges : (edges[j] = edges[k]) => (j = k)

\* the number of edges element b owns
OwnedCount(h, b) == Cardinality(OwnedPlaces(h.edges, h.T, B, b))

\* C4: for every B >= 1 and every T, when the flat edge list is
\* deduplicated and no element owns more than max_edges edges,
\* unpack_hidden(pack_hidden(x)) has the (sink, source, weight) triples of
\* x, and the nodes and T of x.
C4_RoundTrip ==
    (/\ codec.pc = "unpacked"
     /\ Deduplicated(codec.x.edges)
     /\ \A b \in Range(B) : OwnedCount(codec.x, b) <= codec.max_edges) =>
        /\ Triples(codec.out) = Triples(codec.x)
        /\ codec.out.nodes = codec.x.nodes
        /\ codec.out.T = codec.x.T

\* element b's edges in stored order, re-indexed to b's own node range
OwnEdges(h, b) ==
    LET own == Pick(h.edges, OwnedPlaces(h.edges, h.T, B, b))
    IN  [k \in DOMAIN own |-> <<own[k][1] - batch_starts_of(h.T, B)[b],
                                own[k][2] - batch_starts_of(h.T, B)[b]>>]

\* C5: when element b owns more than max_edges edges, pack fills all
\* max_edges slots of b and drops the oldest edges: the slots hold the last
\* max_edges of b's edges in stored order.
C5_PackDropsOldest ==
    codec.pc = "dense" =>
        \A b \in Range(B) :
            OwnedCount(codec.x, b) > codec.max_edges =>
                codec.dense.edges[b] =
                    SubSeq(OwnEdges(codec.x, b),
                           OwnedCount(codec.x, b) - codec.max_edges + 1,
                           OwnedCount(codec.x, b))

---------------------------------------------------------------------------
(* Further properties of unpack_hidden, checked under SpecCodec *)

\* C19: unpack puts every edge of element b that is no sentinel at b's
\* place of the disjoint union: both endpoints of a flat edge that came from
\* b lie in [offset[b], offset[b] + T[b]), offset[b] the sum of T before b;
\* the edges returned are these flat edges.
C19_UnpackOffsetsEdges ==
    codec.pc = "unpacked" =>
        /\ \A n \in DOMAIN codec.flat.edges :
               LET b   == codec.flat.B_idx[n]
                   off == batch_starts_of(codec.dense.T, B)[b]
               IN  \A r \in 1 .. 2 :
                       /\ off <= codec.flat.edges[n][r]
                       /\ codec.flat.edges[n][r] < off + codec.dense.T[b]
        /\ {codec.out.edges[n] : n \in DOMAIN codec.out.edges} =
               {codec.flat.edges[n] : n \in DOMAIN codec.flat.edges}

\* the weights the dense state holds in the slots whose flat edge is e
SlotWeights(e) ==
    LET slots == SlotsUpTo(codec.dense.edges, B)
    IN  {codec.dense.weights[slots[n][1]][slots[n][2]] :
            n \in {k \in DOMAIN codec.flat.edges : codec.flat.edges[k] = e}}

\* C20: for every B >= 1 unpack returns one weight per edge, each edge with
\* the weight of its own slot, and a (sink, source) pair that occurs several
\* times is returned once, with the minimum of its weights.
C20_OneWeightPerEdge ==
    codec.pc = "unpacked" =>
        /\ Len(codec.flat.weights) = Len(codec.flat.edges)
        /\ Len(codec.out.weights) = Len(codec.out.edges)
        /\ Deduplicated(codec.out.edges)
        /\ \A n \in DOMAIN codec.out.edges :
               codec.out.weights[n] = SetMin(SlotWeights(codec.out.edges[n]))

\* C23: pack warns about element b exactly when b owns more than max_edges
\* edges, and the warning reports the number of edges b owns; a batch whose
\* elements each own at most max_edges edges gives no warning, whatever the
\* total number of edges.
C23_WarningPerElement ==
    codec.pc \in {"dense", "unpacked"} =>
        {<<w.b, w.num_edges>> : w \in codec.warnings} =
            {<<b, OwnedCount(codec.x, b)>> :
                b \in {c \in Range(B) : OwnedCount(codec.x, c) > codec.max_edges}}

---------------------------------------------------------------------------
(* Properties of LearnedEdge.forward, checked under SpecLearned *)

\* C7: whatever the sampling draws, no edge of the returned adjacency has
\* sink < source, and none has sink = source.
C7_EdgesRespectTime ==
    \A e \in learned.adj : e[3] < e[2]

\* a sampled edge, an edge of a row without logits, and a removed self edge
C7_Witness ==
    /\ learned.pc = "done"
    /\ learned.status = "ok"
    /\ learned.window = 1
    /\ learned.T = (0 :> 2)
    /\ learned.taus = (0 :> 1)
    /\ learned.adj = {<<0, 1, 0>>, <<0, 2, 1>>}

\* C8: every returned edge (b, sink, source) has sink < T[b] + taus[b] and
\* source < T[b] + taus[b], also in a ragged batch.
C8_EdgesInsideOwnElement ==
    \A e \in learned.adj :
        /\ e[2] < learned.T[e[1]] + learned.taus[e[1]]
        /\ e[3] < learned.T[e[1]] + learned.taus[e[1]]

\* C9: when T[b] + taus[b] <= 1 for every b, forward returns an empty edge
\* set and raises nothing.
C9_NoCandidatesGivesEmpty ==
    (/\ learned.pc = "done"
     /\ \A b \in Range(B) : learned.T[b] + learned.taus[b] <= 1) =>
        /\ learned.status = "ok"
        /\ learned.adj = {}

\* C10: with a window w, every returned edge has source >= sink - w.
C10_EdgesInsideWindow ==
    learned.window # NoWindow =>
        \A e \in learned.adj : e[3] >= e[2] - learned.window

\* C16: a call with tau = 0 raises nothing, returns no belief and returns
\* T, nodes, edges and weights as they were passed in (the initial state
\* when none was passed in).
C16_EmptyStepIsNoOp ==
    (status # "new" /\ caller.tau = 0) =>
        /\ status = "ok"
        /\ mx = NoBelief
        /\ hidden = IF caller.hidden = None THEN get_initial_hidden_state(B)
                    ELSE caller.hidden

\* an empty call on a state that holds nodes
C16_Witness ==
    /\ status = "ok"
    /\ caller.tau = 0
    /\ caller.hidden # None
    /\ \A b \in Range(B) : caller.hidden.T[b] = 2 /\ hidden.T[b] = 2
    /\ hidden.nodes = caller.hidden.nodes

---------------------------------------------------------------------------
(* Properties of SparseGCM.forward on a given hidden state (SpecGiven) *)

\* some T[b] is negative, or some edge without sentinel has an endpoint
\* that is no node of its element after the call: >= T[b] + tau
InvalidState(h, tau) ==
    \E b \in DOMAIN h.T :
        \/ h.T[b] < 0
        \/ \E k \in DOMAIN h.edges[b] :
               /\ h.edges[b][k][1] > -1 /\ h.edges[b][k][2] > -1
               /\ \/ h.edges[b][k][1] >= h.T[b] + tau
                  \/ h.edges[b][k][2] >= h.T[b] + tau

\* C17: a call on a hidden state with a negative T[b], or with an edge
\* endpoint >= T[b] + tau, ends in an error: it does not return.
C17_InvalidStateIsFatal ==
    (/\ status # "new"
     /\ caller.hidden # None
     /\ InvalidState(caller.hidden, caller.tau)) => status # "ok"

---------------------------------------------------------------------------
(* Properties of SparseGCM.forward with edge selectors (SpecSelectors) *)

\* the raw nodes of the last call after its observations were written
RawNodes ==
    IndexPut(PrevNodes, B_idxs_of(B, caller.tau),
             tau_idxs_of(PrevT, B, caller.tau),
             reshape_x(caller.x, B, caller.tau))

\* the last call got as far as its edge selectors
ReachedSelectors == status = "TypeError" \/ caller.graph # NoGraph

\* the chain and the nodes of every selector call of the last call
ChainsCalled == [n \in DOMAIN caller.calls |->
                    <<caller.calls[n].chain, caller.calls[n].nodes>>]

\* C21: with aux_edge_selectors configured a call invokes the aux chain
\* once, after the preprocessor and the positional encoder, on the
\* preprocessed nodes, and the primary chain (when there is one) once before
\* that on the raw nodes; also when edge_selectors is absent.
C21_AuxChainIsCalled ==
    (ReachedSelectors /\ cfg.aux_edge_selectors) =>
        /\ status # "TypeError"
        /\ ChainsCalled =
               (IF cfg.edge_selectors
                THEN <<<<"edge_selectors", RawNodes>>>> ELSE <<>>) \o
               <<<<"aux_edge_selectors", Dirty(RawNodes, cfg)>>>>

\* first row of element b in the batch of the last call
GraphStart(b) == SumTo([k \in Range(B) |-> PrevT[k] + caller.tau], b)

\* C22: in the graph handed to the GNN element b has exactly its nodes
\* [0, T[b] + tau), no edge has a sentinel endpoint, and every edge joins
\* two nodes of one element: the edges of b lie in b's rows of the batch.
C22_GraphIsBlockDiagonal ==
    caller.graph # NoGraph =>
        /\ \A b \in Range(B) :
               /\ caller.graph.rows[b] = PrevT[b] + caller.tau
               /\ \A e \in caller.graph.data[b] : \A r \in 1 .. 2 :
                      0 <= e[r] /\ e[r] < PrevT[b] + caller.tau
        /\ caller.graph.edges =
               UNION { {<<e[1] + GraphStart(b), e[2] + GraphStart(b)>> :
                           e \in caller.graph.data[b]} : b \in Range(B) }
        /\ \A e \in caller.graph.edges : \E b \in Range(B) : \A r \in 1 .. 2 :
               /\ GraphStart(b) <= e[r]
               /\ e[r] < GraphStart(b) + PrevT[b] + caller.tau

\* element 0's slot holds the sentinel, element 1's edge is moved to its rows
C22_Witness ==
    /\ status = "ok"
    /\ B = 2
    /\ cfg.edge_selectors
    /\ caller.tau = 2
    /\ PrevT = (0 :> 0 @@ 1 :> 0)
    /\ hidden.edges = (0 :> <<<<edge_fill, edge_fill>>>> @@ 1 :> <<<<1, 0>>>>)
    /\ caller.graph.edges = {<<3, 2>>}

---------------------------------------------------------------------------
(* RaySparseGCM.get_initial_state (ray_sparse_gcm.py) *)

MaxObsDim == 2     \* flattened observation sizes 1..MaxObsDim
MaxActDim == 2     \* flattened action sizes 1..MaxActDim

\* self.input_dim: obs_dim, plus act_dim when use_prev_action
input_dim(c) == IF c.use_prev_action THEN c.obs_dim + c.act_dim ELSE c.obs_dim

\* torch.zeros(shape) for a two-dimensional shape
zeros(rows, cols) == [r \in Range(rows) |-> [k \in Range(cols) |-> 0]]

\* RaySparseGCM.get_initial_state(): the state of one batch element
get_initial_state(c) ==
    [ nodes   |-> zeros(c.graph_size, input_dim(c)),
      edges   |-> zeros(2, c.max_edges),
      weights |-> zeros(1, c.max_edges),
      T       |-> 0 ]

\* SparseGCM.forward's sentinel filter on one element's edge buffer:
\* mask = edges[b] > -1; data_edge = edges[b, :, mask[0] & mask[1]]
data_edge(edges) ==
    LET cols == 1 .. Cardinality(DOMAIN edges[0])
    IN  Pick([k \in cols |-> <<edges[0][k - 1], edges[1][k - 1]>>],
             {k \in cols : edges[0][k - 1] > -1 /\ edges[1][k - 1] > -1})

NoAdapterState == [nodes |-> <<>>, edges |-> <<>>, weights |-> <<>>, T |-> -1]

\* The policy asks the model for the state of a new episode
GetInitialState ==
    /\ adapter.pc = "built"
    /\ adapter' = [adapter EXCEPT !.pc = "state",
                                  !.state = get_initial_state(adapter.cfg)]
    /\ UNCHANGED <<B, cfg, hidden, mx, status, caller, codec, learned, idxs, wrap>>

\* The engine builds the element's graph from that state
DataEdge ==
    /\ adapter.pc = "state"
    /\ adapter' = [adapter EXCEPT !.pc = "graph",
                                  !.data_edge = data_edge(adapter.state.edges)]
    /\ UNCHANGED <<B, cfg, hidden, mx, status, caller, codec, learned, idxs, wrap>>

InitAdapter ==
    /\ B = 1
    /\ cfg = [preprocessor |-> FALSE, positional_encoder |-> FALSE, feat_out |-> 1]
    /\ hidden = None
    /\ mx = NoBelief
    /\ status = "new"
    /\ caller = Idle
    /\ codec = Idle
    /\ learned = Idle
    /\ idxs = Idle
    /\ wrap = Idle
    /\ adapter \in { [ pc |-> "built", cfg |-> c, state |-> NoAdapterState,
                       data_edge |-> <<>> ] :
                     c \in [ graph_size : 1 .. GraphSize,
                             max_edges : 1 .. MaxMaxEdges,
                             obs_dim : 1 .. MaxObsDim,
                             act_dim : 1 .. MaxActDim,
                             use_prev_action : BOOLEAN ] }

NextAdapter == GetInitialState \/ DataEdge

SpecAdapter == InitAdapter /\ [][NextAdapter]_vars

\* the shape of a two-dimensional tensor
Shape2(t) == <<Cardinality(DOMAIN t),
               IF DOMAIN t = {} THEN 0 ELSE Cardinality(DOMAIN t[0])>>

\* C11: get_initial_state returns all-zero nodes [graph_size, feat], an edge
\* buffer [2, max_edges] whose every slot holds the sentinel -1 (no valid
\* edge is left once the engine filters sentinels), weights [1, max_edges]
\* and T = 0.
C11_InitialStateHasNoEdges ==
    adapter.pc \in {"state", "graph"} =>
        /\ adapter.state.nodes =
               zeros(adapter.cfg.graph_size, input_dim(adapter.cfg))
        /\ Shape2(adapter.state.edges) = <<2, adapter.cfg.max_edges>>
        /\ \A r \in Range(2) : \A k \in Range(adapter.cfg.max_edges) :
               adapter.state.edges[r][k] = edge_fill
        /\ Shape2(adapter.state.weights) = <<1, adapter.cfg.max_edges>>
        /\ adapter.state.T = 0
        /\ adapter.pc = "graph" => adapter.data_edge = <<>>

---------------------------------------------------------------------------
(* Further properties of SparseGCM.forward, checked under SpecEngine *)

\* C12: a call whose extracted beliefs hold a NaN or Inf entry ends in a
\* fatal error: it returns no beliefs and no updated hidden state, so no
\* call that returns has returned a non-finite belief.
C12_NonFiniteBeliefAborts ==
    /\ status = "ok" => caller.finite
    /\ (status # "new" /\ ~caller.finite) =>
           /\ status \in {"AssertionError", "IndexError"}
           /\ mx = NoBelief
           /\ hidden = caller.hidden

\* the second call's beliefs are not finite: the assertion ends the call
C12_Witness ==
    /\ status = "AssertionError"
    /\ ~caller.finite
    /\ Len(caller.taus) = 1
    /\ hidden # None

\* C15: a call does not change the hidden state passed in: its nodes and
\* its T hold afterwards what they held before, and the observations of the
\* call are in the returned nodes only.
C15_PassedStateUntouched ==
    (status # "new" /\ caller.hidden # None) =>
        /\ caller.held.nodes = caller.hidden.nodes
        /\ caller.held.T = caller.hidden.T
        /\ status = "ok" =>
               \A b \in Range(B) : \A i \in Range(caller.tau) :
                   /\ hidden.nodes[b][PrevT[b] + i] = caller.x[b][i]
                   /\ caller.held.nodes[b][PrevT[b] + i] # caller.x[b][i]

\* a second call returned nodes that differ from the ones passed in
C15_Witness ==
    /\ status = "ok"
    /\ Len(caller.taus) = 2
    /\ caller.hidden # None
    /\ hidden.nodes # caller.hidden.nodes
    /\ hidden.T # caller.hidden.T
    /\ caller.held.nodes = caller.hidden.nodes

---------------------------------------------------------------------------
(* Index helpers: get_nonpadded_idxs, get_new_node_idxs, to_dense (util.py) *)
(* One-dimensional tensors are sequences here, so that torch.cat is \o.     *)

RECURSIVE cat(_, _)
\* torch.cat([part[b] for b in range(n)])
cat(part, n) == IF n <= 0 THEN <<>> ELSE cat(part, n - 1) \o part[n - 1]

\* torch.ones(n, dtype=torch.long) * b
ones_times(n, b) == [k \in 1 .. n |-> b]

\* torch.arange(lo, hi)
arange(lo, hi) == [k \in 1 .. (hi - lo) |-> lo + k - 1]

get_nonpadded_idxs_offset(T, taus, Bx) ==
    [ B_idxs   |-> cat([b \in Range(Bx) |-> ones_times(taus[b], b)], Bx),
      tau_idxs |-> cat([b \in Range(Bx) |-> arange(T[b], T[b] + taus[b])], Bx) ]

\* get_nonpadded_idxs(T, taus, B): T gives the device only
get_nonpadded_idxs(T, taus, Bx) ==
    [ B_idxs   |-> cat([b \in Range(Bx) |-> ones_times(taus[b], b)], Bx),
      tau_idxs |-> cat([b \in Range(Bx) |-> arange(0, taus[b])], Bx) ]

get_new_node_idxs_nooffset(T, taus, Bx) == get_nonpadded_idxs(T, taus, Bx)

\* get_new_node_idxs(T, taus, B)
get_new_node_idxs(T, taus, Bx) ==
    [ B_idxs   |-> cat([b \in Range(Bx) |-> ones_times(taus[b], b)], Bx),
      tau_idxs |-> cat([b \in Range(Bx) |-> arange(T[b], T[b] + taus[b])], Bx) ]

\* taus.max()
max_of(taus, Bx) == SetMax({taus[b] : b \in Range(Bx)})

\* dense_mx[dense_B_idxs, dense_tau_idxs] = mx raises IndexError on an index
\* out of range
ScatterOk(Bi, Ti, rows, cols) ==
    \A j \in DOMAIN Bi : IndexOk(Bi[j], rows) /\ IndexOk(Ti[j], cols)

\* to_dense(mx, T, taus, B): zeros of [B, taus.max()] rows, then the scatter
\* (the last write to a place wins)
to_dense(mx_in, T, taus, Bx) ==
    LET ix   == get_nonpadded_idxs(T, taus, Bx)
        cols == max_of(taus, Bx)
    IN  [b \in Range(Bx) |->
            [i \in Range(cols) |->
                LET hits == {j \in DOMAIN ix.B_idxs :
                                /\ WrapIndex(ix.B_idxs[j], Bx) = b
                                /\ WrapIndex(ix.tau_idxs[j], cols) = i}
                IN  IF hits = {} THEN 0
                    ELSE mx_in[CHOOSE j \in hits : \A k \in hits : k <= j]]]

\* the beliefs handed to to_dense: row n of a [sum(taus), feat] tensor is
\* the opaque non-zero vector named 100 + n
Beliefs(taus, Bx) == [n \in 1 .. SumTo(taus, Bx) |-> 100 + n]

NoIdxs == [B_idxs |-> <<>>, tau_idxs |-> <<>>]

GetNewNodeIdxs ==
    /\ idxs.pc = "args"
    /\ idxs' = [idxs EXCEPT !.pc = "get_new_node_idxs",
                            !.out = get_new_node_idxs(idxs.T, idxs.taus, B)]
    /\ UNCHANGED <<B, cfg, hidden, mx, status, caller, codec, learned, adapter, wrap>>

GetNonpaddedIdxs ==
    /\ idxs.pc = "args"
    /\ idxs' = [idxs EXCEPT !.pc = "get_nonpadded_idxs",
                            !.out = get_nonpadded_idxs(idxs.T, idxs.taus, B)]
    /\ UNCHANGED <<B, cfg, hidden, mx, status, caller, codec, learned, adapter, wrap>>

ToDense ==
    /\ idxs.pc = "args"
    /\ LET ix == get_nonpadded_idxs(idxs.T, idxs.taus, B)
       IN  IF ScatterOk(ix.B_idxs, ix.tau_idxs, B, max_of(idxs.taus, B))
           THEN idxs' = [idxs EXCEPT
                            !.pc = "to_dense",
                            !.out = ix,
                            !.dense = to_dense(idxs.mx, idxs.T, idxs.taus, B)]
           ELSE idxs' = [idxs EXCEPT !.pc = "to_dense",
                                     !.out = ix,
                                     !.status = "IndexError"]
    /\ UNCHANGED <<B, cfg, hidden, mx, status, caller, codec, learned, adapter, wrap>>

InitIdxs ==
    /\ B \in 1 .. MaxB
    /\ cfg = [preprocessor |-> FALSE, positional_encoder |-> FALSE, feat_out |-> 1]
    /\ hidden = None
    /\ mx = NoBelief
    /\ status = "new"
    /\ caller = Idle
    /\ codec = Idle
    /\ learned = Idle
    /\ adapter = Idle
    /\ wrap = Idle
    /\ idxs \in { [ pc |-> "args", T |-> T, taus |-> taus,
                    given |-> [T |-> T, taus |-> taus],
                    mx |-> Beliefs(taus, B), out |-> NoIdxs,
                    dense |-> <<>>, status |-> "ok" ] :
                  T \in [Range(B) -> 0 .. GraphSize],
                  taus \in [Range(B) -> 0 .. MaxTau] }

NextIdxs == GetNewNodeIdxs \/ GetNonpaddedIdxs \/ ToDense

SpecIdxs == InitIdxs /\ [][NextIdxs]_vars

\* C13: get_new_node_idxs returns sum(taus) (batch, node) pairs, b ascending
\* and within b the node index ascending over [T[b], T[b] + taus[b]); T and
\* taus are as they were given.
C13_NewNodeIdxs ==
    idxs.pc = "get_new_node_idxs" =>
        /\ Len(idxs.out.B_idxs) = SumTo(idxs.taus, B)
        /\ Len(idxs.out.tau_idxs) = SumTo(idxs.taus, B)
        /\ \A b \in Range(B) : \A i \in Range(idxs.taus[b]) :
               /\ idxs.out.B_idxs[SumTo(idxs.taus, b) + i + 1] = b
               /\ idxs.out.tau_idxs[SumTo(idxs.taus, b) + i + 1] = idxs.T[b] + i
        /\ idxs.T = idxs.given.T
        /\ idxs.taus = idxs.given.taus

\* a ragged batch whose elements hold nodes already
C13_Witness ==
    /\ idxs.pc = "get_new_node_idxs"
    /\ B = 2
    /\ idxs.T = (0 :> 2 @@ 1 :> 3)
    /\ idxs.taus = (0 :> 1 @@ 1 :> 2)
    /\ idxs.out = [B_idxs |-> <<0, 1, 1>>, tau_idxs |-> <<2, 3, 4>>]

\* C14: get_nonpadded_idxs returns sum(taus) (batch, offset) pairs, b
\* ascending and offsets [0, taus[b]) ascending, whatever T is; to_dense
\* puts the i-th belief of element b at [b, i] of a [B, max(taus)] tensor of
\* feature vectors and leaves every other entry zero.
C14_NonpaddedIdxs ==
    idxs.pc \in {"get_nonpadded_idxs", "to_dense"} =>
        /\ Len(idxs.out.B_idxs) = SumTo(idxs.taus, B)
        /\ Len(idxs.out.tau_idxs) = SumTo(idxs.taus, B)
        /\ \A b \in Range(B) : \A i \in Range(idxs.taus[b]) :
               /\ idxs.out.B_idxs[SumTo(idxs.taus, b) + i + 1] = b
               /\ idxs.out.tau_idxs[SumTo(idxs.taus, b) + i + 1] = i
        /\ idxs.pc = "to_dense" =>
               /\ idxs.status = "ok"
               /\ DOMAIN idxs.dense = Range(B)
               /\ \A b \in Range(B) :
                      /\ DOMAIN idxs.dense[b] = Range(max_of(idxs.taus, B))
                      /\ \A i \in Range(max_of(idxs.taus, B)) :
                             idxs.dense[b][i] =
                                 IF i < idxs.taus[b]
                                 THEN idxs.mx[SumTo(idxs.taus, b) + i + 1]
                                 ELSE 0

\* a ragged batch with T > 0: element 0 is padded with one zero row
C14_Witness ==
    /\ idxs.pc = "to_dense"
    /\ B = 2
    /\ idxs.T = (0 :> 1 @@ 1 :> 2)
    /\ idxs.taus = (0 :> 1 @@ 1 :> 2)
    /\ idxs.out = [B_idxs |-> <<0, 1, 1>>, tau_idxs |-> <<0, 0, 1>>]
    /\ idxs.dense = (0 :> (0 :> 101 @@ 1 :> 0) @@ 1 :> (0 :> 102 @@ 1 :> 103))

---------------------------------------------------------------------------
(* SparseGCM.wrap_overflow (sparse_gcm.py), on dense [B, N, N] adjacency *)

overflow_mask_strict(num_nodes, N) == [b \in DOMAIN num_nodes |-> num_nodes[b] > N]

\* overflow_mask = num_nodes + 1 > N
overflow_mask(num_nodes, N) == [b \in DOMAIN num_nodes |-> num_nodes[b] + 1 > N]

\* overflow_mask.nonzero().squeeze(): the elements that overflow
overflowing_batches(mask) == {b \in DOMAIN mask : mask[b]}

\* torch.roll(t, -1, dim) along a dimension of size n: place i takes the
\* entry of place i + 1, place n - 1 the entry of place 0
roll(row, n) == [i \in Range(n) |-> row[(i + 1) % n]]

\* nodes[overflowing_batches, 0] = 0, then
\* nodes[overflowing_batches] = torch.roll(nodes[overflowing_batches], -1, -2)
WrapNodes(nodes, ob, N) ==
    [b \in DOMAIN nodes |->
        IF b \in ob
        THEN roll([i \in Range(N) |-> IF i = 0 THEN 0 ELSE nodes[b][i]], N)
        ELSE nodes[b]]

\* adj[overflowing_batches, 0, :] = 0; adj[overflowing_batches, :, 0] = 0;
\* adj[overflowing_batches] = torch.roll(adj[overflowing_batches], (-1, -1), (-1, -2))
WrapAdj(adj, ob, N) ==
    [b \in DOMAIN adj |->
        IF b \in ob
        THEN LET zeroed == [i \in Range(N) |-> [j \in Range(N) |->
                               IF i = 0 \/ j = 0 THEN 0 ELSE adj[b][i][j]]]
                 cols   == [i \in Range(N) |-> roll(zeroed[i], N)]
             IN  roll(cols, N)
        ELSE adj[b]]

\* if weights.numel() != 0: the same three statements on weights
WrapWeights(weights, ob, N) ==
    IF \A b \in DOMAIN weights : weights[b] = <<>> THEN weights
    ELSE WrapAdj(weights, ob, N)

\* num_nodes[overflow_mask] = num_nodes[overflow_mask] - 1
WrapNumNodes(num_nodes, mask) ==
    [b \in DOMAIN num_nodes |-> IF mask[b] THEN num_nodes[b] - 1 ELSE num_nodes[b]]

\* wrap_overflow(nodes, adj, weights, num_nodes)
wrap_overflow(nodes, adj, weights, num_nodes, N) ==
    LET mask == overflow_mask(num_nodes, N)
        ob   == overflowing_batches(mask)
    IN  [ nodes     |-> WrapNodes(nodes, ob, N),
          adj       |-> WrapAdj(adj, ob, N),
          weights   |-> WrapWeights(weights, ob, N),
          num_nodes |-> WrapNumNodes(num_nodes, mask) ]

\* wrap_overflow looks at no entry of nodes, adj or weights: every entry of
\* the arguments is a non-zero value that names its place
AdjName(b, i, j) == 100 * (b + 1) + 10 * i + j

WeightName(b, i, j) == 1000 + AdjName(b, i, j)

WrapArgs(Bx, N, nn, weighted) ==
    [ nodes     |-> [b \in Range(Bx) |-> [i \in Range(N) |-> Obs(b, i)]],
      adj       |-> [b \in Range(Bx) |->
                        [i \in Range(N) |-> [j \in Range(N) |-> AdjName(b, i, j)]]],
      weights   |-> [b \in Range(Bx) |->
                        IF weighted
                        THEN [i \in Range(N) |->
                                 [j \in Range(N) |-> WeightName(b, i, j)]]
                        ELSE <<>>],
      num_nodes |-> nn ]

WrapOverflow ==
    /\ wrap.pc = "args"
    /\ wrap' = [wrap EXCEPT
                   !.pc = "done",
                   !.out = wrap_overflow(wrap.args.nodes, wrap.args.adj,
                                         wrap.args.weights, wrap.args.num_nodes,
                                         wrap.N)]
    /\ UNCHANGED <<B, cfg, hidden, mx, status, caller, codec, learned, adapter, idxs>>

InitWrap ==
    /\ B \in 1 .. MaxB
    /\ cfg = [preprocessor |-> FALSE, positional_encoder |-> FALSE, feat_out |-> 1]
    /\ hidden = None
    /\ mx = NoBelief
    /\ status = "new"
    /\ caller = Idle
    /\ codec = Idle
    /\ learned = Idle
    /\ adapter = Idle
    /\ idxs = Idle
    /\ wrap \in { [ pc |-> "args", N |-> N,
                    args |-> WrapArgs(B, N, nn, weighted),
                    out |-> WrapArgs(B, N, nn, weighted) ] :
                  N \in 1 .. GraphSize,
                  nn \in [Range(B) -> 0 .. GraphSize],
                  weighted \in BOOLEAN }
    /\ \A b \in Range(B) : wrap.args.num_nodes[b] <= wrap.N

NextWrap == WrapOverflow

SpecWrap == InitWrap /\ [][NextWrap]_vars

\* C18: for every element with num_nodes + 1 > N, wrap_overflow drops node
\* row 0, moves node row i + 1 to row i, zeroes the last row, moves
\* adjacency entry (i + 1, j + 1) to (i, j), drops the entries of row 0 and
\* column 0, and decrements num_nodes; every other element keeps its nodes,
\* adjacency, weights and num_nodes; whatever the number of overflowing
\* elements.
C18_WrapOverflowShifts ==
    wrap.pc = "done" =>
        \A b \in Range(B) :
            IF wrap.args.num_nodes[b] + 1 > wrap.N
            THEN /\ \A i \in Range(wrap.N - 1) :
                        wrap.out.nodes[b][i] = wrap.args.nodes[b][i + 1]
                 /\ wrap.out.nodes[b][wrap.N - 1] = 0
                 /\ \A i, j \in Range(wrap.N - 1) :
                        wrap.out.adj[b][i][j] = wrap.args.adj[b][i + 1][j + 1]
                 /\ \A i \in Range(wrap.N) :
                        /\ wrap.out.adj[b][i][wrap.N - 1] = 0
                        /\ wrap.out.adj[b][wrap.N - 1][i] = 0
                 /\ wrap.out.num_nodes[b] = wrap.args.num_nodes[b] - 1
            ELSE /\ wrap.out.nodes[b] = wrap.args.nodes[b]
                 /\ wrap.out.adj[b] = wrap.args.adj[b]
                 /\ wrap.out.weights[b] = wrap.args.weights[b]
                 /\ wrap.out.num_nodes[b] = wrap.args.num_nodes[b]

\* one element overflows and the other does not
C18_Witness ==
    /\ wrap.pc = "done"
    /\ B = 2
    /\ wrap.N = 3
    /\ wrap.args.num_nodes = (0 :> 3 @@ 1 :> 2)
    /\ wrap.out.num_nodes = (0 :> 2 @@ 1 :> 2)
    /\ wrap.out.nodes[0] = (0 :> Obs(0, 1) @@ 1 :> Obs(0, 2) @@ 2 :> 0)
    /\ wrap.out.adj[0][1][0] = AdjName(0, 2, 1)
    /\ wrap.out.nodes[1] = wrap.args.nodes[1]

=============================================================================
